---- MODULE Spec2Model ----
(***************************************************************************)
(* A model of the reverse tunnel of go_my_cloudflared.                     *)
(*                                                                         *)
(* Relay  (cmd/server/go_my_cloudflared_server.go): the tunnel listener    *)
(* (handleWebSocket), the public forward path (handleHTTPRequest) and the  *)
(* response router (handleHTTPResponse), at the granularity of the lock    *)
(* sections and channel operations of the code.                            *)
(*                                                                         *)
(* Time is a discrete clock `now`.  time.Now().UnixNano() reads `now`,     *)
(* time.Now().Unix() reads now \div SecTicks.  Two reads between which the *)
(* clock did not advance return the same value.                            *)
(***************************************************************************)
EXTENDS Integers, Sequences, FiniteSets, TLC

\* ------------------------------------------------------------------ bounds
\* number of public requests handled (one handleHTTPRequest call each)
NumReq == 2
\* number of handshakes arriving on the tunnel listener
NumConn == 2
\* last clock value
MaxTime == 1
\* clock ticks per second of time.Now().Unix()
SecTicks == 1
\* config.Server.RequestTimeout, in clock ticks
TimeoutTicks == 1

\* connection attempts the agent makes (Start's and the reconnects')
MaxDials == 3
\* reconnect goroutines the agent starts
MaxRc == 3
\* messages the relay sends to the agent
MaxPeerMsgs == 2
\* messages an agent has sent that the relay has not yet read
MaxInFlight == 2
\* config.Server.MaxClients
MaxClients == 1
\* config.Tunnel.ReconnectAttempts
ReconnectAttempts == 2

Req == 1..NumReq
Gen == 1..MaxDials
Rc == 1..MaxRc
Conn == 1..NumConn

\* ------------------------------------------------------------ credentials
\* strings are sequences of characters
Bearer == <<"B", "e", "a", "r", "e", "r", " ">>

\* config.Auth.Tokens
Tokens == << <<"t">> >>

\* the Authorization headers a handshake may carry (<<>>: no header)
AuthHeaders == { <<>>, <<"t">>, Bearer \o <<"t">>, Bearer \o <<"x">>, Bearer }

\* validateToken taking the credential only from a header with the prefix
validateTokenBearerOnly(authHeader) ==
    /\ Len(authHeader) > 7
    /\ SubSeq(authHeader, 1, 7) = Bearer
    /\ \E i \in 1..Len(Tokens) : SubSeq(authHeader, 8, Len(authHeader)) = Tokens[i]

validateTokenNoEmptyCheck(authHeader) ==
    LET token == IF Len(authHeader) > 7 /\ SubSeq(authHeader, 1, 7) = Bearer
                 THEN SubSeq(authHeader, 8, Len(authHeader))
                 ELSE authHeader
    IN  authHeader = <<>> \/ \E i \in 1..Len(Tokens) : token = Tokens[i]

validateToken(authHeader) ==
    IF authHeader = <<>>
    THEN FALSE
    ELSE LET token == IF Len(authHeader) > 7 /\ SubSeq(authHeader, 1, 7) = Bearer
                      THEN SubSeq(authHeader, 8, Len(authHeader))
                      ELSE authHeader
         IN  \E i \in 1..Len(Tokens) : token = Tokens[i]

\* ------------------------------------------------------------------ state
VARIABLES
    now,              \* the clock
    requireAuth,      \* config.Auth.RequireAuth
    clients,          \* TunnelServer.clients: clientID -> connection
    pendingRequests,  \* TunnelServer.pendingRequests: requestID -> channel (of handler)
    wsPc,             \* position of each handleWebSocket call
    wsHdr,            \* the Authorization header of each handshake
    wsId,             \* clientID of each handleWebSocket call
    live,             \* connection upgraded and not yet closed by the relay
    broken,           \* the channel has failed (reads on it return an error)
    toAgent,          \* messages written by the relay, not yet read by the agent
    toRelay,          \* messages written by the agent, not yet read by the relay
    hPc,              \* position of each handleHTTPRequest call
    hSel,             \* selectedClient (its connection), 0: none
    hId,              \* requestID, -1: not generated
    hDeadline,        \* expiry of time.After(RequestTimeout)
    hChan,            \* responseChan (buffer of capacity 1)
    hOut,             \* what the public caller observes
    hGot,             \* the request the received response was produced for, 0: none
    hSeen,            \* the status, headers and body written to the public caller
    lastPing,         \* Client.LastPing of each session
    clientsMux,       \* the tasks holding TunnelServer.clientsMux
    requestMux,       \* the tasks holding TunnelServer.requestMux
    wFailed,          \* connections on which an http_request write returned an error
    raced             \* writers whose WriteJSON overlapped another on the same connection

VARIABLES
    aMain,            \* the agent's main goroutine: Start, waitForStop, Stop
    aConn,            \* TunnelClient.conn, 0: nil
    aConnected,       \* TunnelClient.connected
    reconnectCount,   \* TunnelClient.reconnectCount
    stopClosed,       \* TunnelClient.stopChan is closed
    muR,              \* the goroutines holding TunnelClient.mu for reading
    dials,            \* connection attempts made so far
    cState,           \* each connection the agent dialled: none, open, broken, closed
    inbox,            \* messages the relay wrote on a connection, not yet read
    peerSent,         \* messages the relay has sent to the agent
    aResp,            \* the http_response messages the agent has written
    rlPc,             \* position of each handleMessages goroutine
    rlConn,           \* its local variable conn
    rlMsg,            \* the id of the http_request it is handling, -1: none
    rlErr,            \* how the dispatch to the local service ended
    hbPc,             \* position of the heartbeat goroutine
    rcPc,             \* position of each reconnect goroutine
    rcCnt,            \* its local variable count
    nRc,              \* reconnect goroutines started so far
    rcDelay,          \* local variable delay of each reconnect goroutine, in ms
    rcTried,          \* reconnect attempts that failed since the last connection
    aRaced            \* goroutines whose WriteJSON overlapped another

relayVars == <<now, requireAuth, clients, pendingRequests, wsPc, wsHdr, wsId, live,
               broken, toAgent, toRelay, hPc, hSel, hId, hDeadline, hChan, hOut,
               hGot, hSeen, lastPing, clientsMux, requestMux, wFailed, raced>>

agentVars == <<aMain, aConn, aConnected, reconnectCount, stopClosed, muR, dials, cState,
               inbox, peerSent, aResp, rlPc, rlConn, rlMsg, rlErr, hbPc, rcPc, rcCnt,
               nRc, rcDelay, rcTried, aRaced>>

vars == <<relayVars, agentVars>>

\* ---------------------------------------------------------------- helpers
EmptyMap == [x \in {} |-> 0]
MapPut(m, k, v) == [x \in DOMAIN m \cup {k} |-> IF x = k THEN v ELSE m[x]]
MapDel(m, k) == [x \in DOMAIN m \ {k} |-> m[x]]

\* time.Now().UnixNano() and time.Now().Unix()
UnixNano == now
Unix == now \div SecTicks

WsWriter(c) == <<"ws", c>>
ReqWriter(h) == <<"req", h>>

\* the goroutines inside Conn.WriteJSON on connection c
Writers(c) ==
    {ReqWriter(h) : h \in {x \in Req : hPc[x] = "writing" /\ hSel[x] = c}}
        \cup (IF wsPc[c] = "welcoming" THEN {WsWriter(c)} ELSE {})

ConnectedMsg == [type |-> "connected", id |-> -1, origin |-> 0]
HTTPRequestMsg(h) == [type |-> "http_request", id |-> hId[h], origin |-> h]

\* the local service answering 200, X-Reply: b, "ok"
LocalOK ==
    [ok |-> TRUE, statusCode |-> 200, headers |-> {<<"X-Reply", <<"b">>>>},
     body |-> <<"o", "k">>, err |-> <<>>]

\* what the local service of an agent may do with a request: answer (statusCode,
\* headers with their values, body) or be unreachable (client.Do fails with err)
LocalResults ==
    { LocalOK,
      [ok |-> TRUE, statusCode |-> 204, headers |-> {<<"X-Tag", <<"c", "d">>>>},
       body |-> <<>>, err |-> <<>>],
      [ok |-> FALSE, statusCode |-> 0, headers |-> {}, body |-> <<>>,
       err |-> <<"E">>] }

\* the data of the http_response the agent builds: on success the status code,
\* the first value of every header and the body; on failure (sendErrorResponse)
\* 500, Content-Type: text/plain, an empty body and the error text
ResponseData(res) ==
    IF res.ok
    THEN [statusCode |-> res.statusCode,
          headers |-> {<<kv[1], kv[2][1]>> : kv \in {x \in res.headers : Len(x[2]) > 0}},
          body |-> res.body,
          error |-> <<>>]
    ELSE [statusCode |-> 500,
          headers |-> {<<"Content-Type", "text/plain">>},
          body |-> <<>>,
          error |-> res.err]

\* the id of a message without a string id, and an id the relay never issued
NoId == -1
UnknownId == 99

\* local: the result of the local service the response was built from;
\* hasData: the message carries a data object
HTTPResponseMsg(m, res) ==
    [type |-> "http_response", id |-> m.id, origin |-> m.origin,
     data |-> ResponseData(res), local |-> res, hasData |-> TRUE]

\* HTTPResponse{}: the response before any field of data is copied into it
ZeroResponse == [statusCode |-> 0, headers |-> {}, body |-> <<>>, error |-> <<>>]

\* http_response messages an agent can send in answer to request m that are
\* not the answer HTTPResponseMsg builds: without id, without data object,
\* with an id the relay never issued
MalformedKinds == {"noId", "noData", "unknownId"}
MalformedResponseMsg(m, kind) ==
    [type |-> "http_response",
     id |-> IF kind = "noId" THEN NoId ELSE IF kind = "unknownId" THEN UnknownId ELSE m.id,
     origin |-> m.origin,
     data |-> IF kind = "noData" THEN ZeroResponse ELSE ResponseData(LocalOK),
     local |-> LocalOK,
     hasData |-> kind # "noData"]

\* the heartbeat the agent sends every 30 s, and the pong it answers a ping with
HeartbeatMsg == [type |-> "heartbeat", id |-> NoId, origin |-> 0]
PongMsg == [type |-> "pong", id |-> NoId, origin |-> 0]

\* the response as it sits in the channel of handler h; early: it was put there
\* before the handler's time.After timer fired
Routed(msg, h) ==
    [type |-> msg.type, id |-> msg.id, origin |-> msg.origin, data |-> msg.data,
     local |-> msg.local, hasData |-> msg.hasData,
     early |-> hPc[h] # "wait" \/ now < hDeadline[h]]

\* nothing written to the public caller by the response path
NoReply == [statusCode |-> 0, headers |-> {}, body |-> <<>>]

\* http.Error(w, error, code): the text and a newline as text/plain
HTTPError(error, code) ==
    [statusCode |-> code,
     headers |-> {<<"Content-Type", "text/plain; charset=utf-8">>,
                  <<"X-Content-Type-Options", "nosniff">>},
     body |-> error \o <<"\n">>]

\* the response branch without the test of the error field
RelayResponseNoErrorCheck(response) ==
    [statusCode |-> response.statusCode,
     headers |-> response.headers,
     body |-> IF response.body # <<>> THEN response.body ELSE <<>>]

\* the response branch of handleHTTPRequest: 502 with the error text when the
\* response carries an error; otherwise its headers, its status code, and its
\* body when not empty
RelayResponse(response) ==
    IF response.error # <<>>
    THEN HTTPError(response.error, 502)
    ELSE [statusCode |-> response.statusCode,
          headers |-> response.headers,
          body |-> IF response.body # <<>> THEN response.body ELSE <<>>]

InitRelay ==
    /\ now = 0
    /\ clients = EmptyMap
    /\ pendingRequests = EmptyMap
    /\ wsPc = [c \in Conn |-> "idle"]
    /\ wsHdr = [c \in Conn |-> <<>>]
    /\ wsId = [c \in Conn |-> -1]
    /\ live = [c \in Conn |-> FALSE]
    /\ broken = [c \in Conn |-> FALSE]
    /\ toAgent = [c \in Conn |-> <<>>]
    /\ toRelay = [c \in Conn |-> <<>>]
    /\ hPc = [h \in Req |-> "idle"]
    /\ hSel = [h \in Req |-> 0]
    /\ hId = [h \in Req |-> -1]
    /\ hDeadline = [h \in Req |-> 0]
    /\ hChan = [h \in Req |-> <<>>]
    /\ hOut = [h \in Req |-> "none"]
    /\ hGot = [h \in Req |-> 0]
    /\ hSeen = [h \in Req |-> NoReply]
    /\ lastPing = [c \in Conn |-> -1]
    /\ clientsMux = {}
    /\ requestMux = {}
    /\ wFailed = {}
    /\ raced = {}

\* the clock advances
Tick ==
    /\ now < MaxTime
    /\ now' = now + 1
    /\ UNCHANGED <<requireAuth, clients, pendingRequests, wsPc, wsHdr, wsId, live,
                   broken, toAgent, toRelay, hPc, hSel, hId, hDeadline, hChan, hOut,
                   hGot, hSeen, lastPing, clientsMux, requestMux, wFailed, raced,
                   agentVars>>

\* a channel fails: the peer goes away or the network drops; what was in flight is lost
ConnFail(c) ==
    /\ live[c]
    /\ ~broken[c]
    /\ broken' = [broken EXCEPT ![c] = TRUE]
    /\ toAgent' = [toAgent EXCEPT ![c] = <<>>]
    /\ toRelay' = [toRelay EXCEPT ![c] = <<>>]
    /\ UNCHANGED <<now, hSeen, lastPing, clientsMux, requestMux, requireAuth, clients, pendingRequests, wsPc, wsHdr, wsId, live,
                   hPc, hSel, hId, hDeadline, hChan, hOut, hGot, wFailed, raced,
                   agentVars>>

\* ------------------------------------------------- relay: tunnel listener
\* handleWebSocket, from the handshake to the registration: 401 unless the token
\* is valid; the upgrade; clientID := client_<Unix seconds>; LastPing := now;
\* under clientsMux, s.clients[clientID] = client
WsHandshake(c, hdr) ==
    /\ wsPc[c] = "idle"
    /\ IF c = 1 THEN TRUE ELSE wsPc[c - 1] # "idle"
    /\ wsHdr' = [wsHdr EXCEPT ![c] = hdr]
    /\ IF requireAuth /\ ~validateToken(hdr)
       THEN /\ wsPc' = [wsPc EXCEPT ![c] = "rejected"]
            /\ UNCHANGED <<live, wsId, clients, lastPing>>
       ELSE \/ /\ clientsMux = {}
               /\ wsPc' = [wsPc EXCEPT ![c] = "welcome"]
               /\ live' = [live EXCEPT ![c] = TRUE]
               /\ wsId' = [wsId EXCEPT ![c] = Unix]
               /\ lastPing' = [lastPing EXCEPT ![c] = now]
               /\ clients' = MapPut(clients, Unix, c)
            \/ /\ wsPc' = [wsPc EXCEPT ![c] = "upgradeFailed"]
               /\ UNCHANGED <<live, wsId, clients, lastPing>>
    /\ UNCHANGED <<now, hSeen, clientsMux, requestMux, requireAuth, pendingRequests, broken, toAgent,
                   toRelay, hPc, hSel, hId, hDeadline, hChan, hOut, hGot, wFailed, raced,
                   agentVars>>

\* client.Conn.WriteJSON(welcomeMsg) is entered
WsWelcomeBegin(c) ==
    /\ wsPc[c] = "welcome"
    /\ wsPc' = [wsPc EXCEPT ![c] = "welcoming"]
    /\ raced' = IF Writers(c) = {} THEN raced ELSE raced \cup Writers(c) \cup {WsWriter(c)}
    /\ UNCHANGED <<now, hSeen, lastPing, clientsMux, requestMux, requireAuth, clients, pendingRequests, wsHdr, wsId, live, broken,
                   toAgent, toRelay, hPc, hSel, hId, hDeadline, hChan, hOut, hGot, wFailed,
                   agentVars>>

\* client.Conn.WriteJSON(welcomeMsg) returns (its error is ignored) or, when it
\* overlapped another write, may panic: the deferred teardown is not yet installed
WsWelcomeEnd(c) ==
    /\ wsPc[c] = "welcoming"
    /\ raced' = raced \ {WsWriter(c)}
    /\ \/ /\ ~broken[c]
          /\ toAgent' = [toAgent EXCEPT ![c] = Append(@, ConnectedMsg)]
          /\ wsPc' = [wsPc EXCEPT ![c] = "reading"]
       \/ /\ broken[c]
          /\ toAgent' = toAgent
          /\ wsPc' = [wsPc EXCEPT ![c] = "reading"]
       \/ /\ WsWriter(c) \in raced
          /\ toAgent' = toAgent
          /\ wsPc' = [wsPc EXCEPT ![c] = "panicked"]
    /\ UNCHANGED <<now, hSeen, lastPing, clientsMux, requestMux, requireAuth, clients, pendingRequests, wsHdr, wsId, live, broken,
                   toRelay, hPc, hSel, hId, hDeadline, hChan, hOut, hGot, wFailed,
                   agentVars>>

\* handleHTTPResponse without the test of the data object
handleHTTPResponseNoDataCheck(msg) ==
    IF msg.id = NoId
    THEN UNCHANGED <<pendingRequests, hChan>>
    ELSE /\ requestMux = {}
         /\ IF msg.id \in DOMAIN pendingRequests
            THEN LET h == pendingRequests[msg.id]
                 IN  /\ pendingRequests' = MapDel(pendingRequests, msg.id)
                     /\ hChan' = IF Len(hChan[h]) < 1
                                  THEN [hChan EXCEPT ![h] = Append(@, Routed(msg, h))]
                                  ELSE hChan
            ELSE UNCHANGED <<pendingRequests, hChan>>

\* handleHTTPResponse: return when the id is not a string or the data is not an
\* object; under requestMux look the channel up and remove the entry; return
\* when there was none; send without blocking
handleHTTPResponse(msg) ==
    IF msg.id = NoId \/ ~msg.hasData
    THEN UNCHANGED <<pendingRequests, hChan>>
    ELSE /\ requestMux = {}
         /\ IF msg.id \in DOMAIN pendingRequests
            THEN LET h == pendingRequests[msg.id]
                 IN  /\ pendingRequests' = MapDel(pendingRequests, msg.id)
                     /\ hChan' = IF Len(hChan[h]) < 1
                                  THEN [hChan EXCEPT ![h] = Append(@, Routed(msg, h))]
                                  ELSE hChan
            ELSE UNCHANGED <<pendingRequests, hChan>>

\* the read loop reads one message and handles it: a pong sets LastPing, an
\* http_response goes to handleHTTPResponse, any other type is dropped
WsReadMessage(c) ==
    /\ wsPc[c] = "reading"
    /\ ~broken[c]
    /\ toRelay[c] # <<>>
    /\ toRelay' = [toRelay EXCEPT ![c] = Tail(@)]
    /\ IF Head(toRelay[c]).type = "pong"
       THEN /\ lastPing' = [lastPing EXCEPT ![c] = now]
            /\ UNCHANGED <<pendingRequests, hChan>>
       ELSE IF Head(toRelay[c]).type = "http_response"
       THEN /\ handleHTTPResponse(Head(toRelay[c]))
            /\ lastPing' = lastPing
       ELSE UNCHANGED <<pendingRequests, hChan, lastPing>>
    /\ UNCHANGED <<now, hSeen, clientsMux, requestMux, requireAuth, clients, wsPc, wsHdr, wsId, live, broken, toAgent,
                   hPc, hSel, hId, hDeadline, hOut, hGot, wFailed, raced,
                   agentVars>>

\* conn.ReadJSON fails: the loop ends and the deferred teardown runs: under
\* clientsMux, delete(s.clients, clientID)
WsReadError(c) ==
    /\ wsPc[c] = "reading"
    /\ broken[c]
    /\ clientsMux = {}
    /\ clients' = MapDel(clients, wsId[c])
    /\ live' = [live EXCEPT ![c] = FALSE]
    /\ wsPc' = [wsPc EXCEPT ![c] = "closed"]
    /\ UNCHANGED <<now, hSeen, lastPing, clientsMux, requestMux, requireAuth, pendingRequests, wsHdr, wsId, broken, toAgent,
                   toRelay, hPc, hSel, hId, hDeadline, hChan, hOut, hGot, wFailed, raced,
                   agentVars>>

\* the agent at the other end of connection c (TunnelClient.handleMessages):
\* reads the next message; an http_request is answered with an http_response
\* carrying the same id, built from the result res of the local service
AgentServe(c, res) ==
    /\ live[c]
    /\ ~broken[c]
    /\ toAgent[c] # <<>>
    /\ toAgent' = [toAgent EXCEPT ![c] = Tail(@)]
    /\ toRelay' = IF Head(toAgent[c]).type = "http_request"
                  THEN [toRelay EXCEPT ![c] =
                            Append(@, HTTPResponseMsg(Head(toAgent[c]), res))]
                  ELSE toRelay
    /\ UNCHANGED <<now, hSeen, lastPing, clientsMux, requestMux, requireAuth, clients, pendingRequests, wsPc, wsHdr, wsId, live,
                   broken, hPc, hSel, hId, hDeadline, hChan, hOut, hGot, wFailed, raced,
                   agentVars>>

\* the agent at the other end of connection c sends msg on its own: the
\* heartbeat of TunnelClient.heartbeat, the pong of TunnelClient.handlePing
AgentSend(c, msg) ==
    /\ live[c]
    /\ ~broken[c]
    /\ Len(toRelay[c]) < MaxInFlight
    /\ toRelay' = [toRelay EXCEPT ![c] = Append(@, msg)]
    /\ UNCHANGED <<now, hSeen, lastPing, clientsMux, requestMux, requireAuth, clients, pendingRequests, wsPc, wsHdr, wsId, live,
                   broken, toAgent, hPc, hSel, hId, hDeadline, hChan, hOut, hGot, wFailed, raced,
                   agentVars>>

\* an agent that is not TunnelClient at the other end of connection c: it reads
\* an http_request and answers with an http_response of the given kind
AgentReplyMalformed(c, kind) ==
    /\ live[c]
    /\ ~broken[c]
    /\ toAgent[c] # <<>>
    /\ Head(toAgent[c]).type = "http_request"
    /\ toAgent' = [toAgent EXCEPT ![c] = Tail(@)]
    /\ toRelay' = [toRelay EXCEPT ![c] =
                       Append(@, MalformedResponseMsg(Head(toAgent[c]), kind))]
    /\ UNCHANGED <<now, hSeen, lastPing, clientsMux, requestMux, requireAuth, clients, pendingRequests, wsPc, wsHdr, wsId, live,
                   broken, hPc, hSel, hId, hDeadline, hChan, hOut, hGot, wFailed, raced,
                   agentVars>>

\* an agent that is not TunnelClient at the other end of connection c: it sends
\* an http_response carrying request identifier id, whatever it was asked
ForgedResponseMsg(id) ==
    [type |-> "http_response", id |-> id, origin |-> 0,
     data |-> ResponseData(LocalOK), local |-> LocalOK, hasData |-> TRUE]

AgentForge(c, id) ==
    /\ live[c]
    /\ ~broken[c]
    /\ toRelay[c] = <<>>
    /\ toRelay' = [toRelay EXCEPT ![c] = Append(@, ForgedResponseMsg(id))]
    /\ UNCHANGED <<now, hSeen, lastPing, clientsMux, requestMux, requireAuth, clients, pendingRequests, wsPc, wsHdr, wsId, live,
                   broken, toAgent, hPc, hSel, hId, hDeadline, hChan, hOut, hGot, wFailed, raced,
                   agentVars>>

\* ----------------------------------------------- relay: public forward path
\* handleHTTPRequest selecting among the connections that were ever registered
HReqSelectAnyConn(h) ==
    /\ hPc[h] = "idle"
    /\ IF h = 1 THEN TRUE ELSE hPc[h - 1] # "idle"
    /\ clientsMux = {}
    /\ IF {c \in Conn : wsId[c] # -1} = {}
       THEN /\ hPc' = [hPc EXCEPT ![h] = "done"]
            /\ hOut' = [hOut EXCEPT ![h] = "503"]
            /\ UNCHANGED <<hSel, hId>>
       ELSE /\ \E c \in {x \in Conn : wsId[x] # -1} : hSel' = [hSel EXCEPT ![h] = c]
            /\ hId' = [hId EXCEPT ![h] = UnixNano]
            /\ hPc' = [hPc EXCEPT ![h] = "body"]
            /\ hOut' = hOut
    /\ UNCHANGED <<now, hSeen, lastPing, clientsMux, requestMux, requireAuth, clients, pendingRequests, wsPc, wsHdr, wsId, live,
                   broken, toAgent, toRelay, hDeadline, hChan, hGot, wFailed, raced,
                   agentVars>>

\* handleHTTPRequest, under clientsMux (read): 503 when the registry is empty,
\* otherwise the first client the map iteration yields; requestID := req_<UnixNano>
HReqSelect(h) ==
    /\ hPc[h] = "idle"
    /\ IF h = 1 THEN TRUE ELSE hPc[h - 1] # "idle"
    /\ clientsMux = {}
    /\ IF DOMAIN clients = {}
       THEN /\ hPc' = [hPc EXCEPT ![h] = "done"]
            /\ hOut' = [hOut EXCEPT ![h] = "503"]
            /\ UNCHANGED <<hSel, hId>>
       ELSE /\ \E k \in DOMAIN clients : hSel' = [hSel EXCEPT ![h] = clients[k]]
            /\ hId' = [hId EXCEPT ![h] = UnixNano]
            /\ hPc' = [hPc EXCEPT ![h] = "body"]
            /\ hOut' = hOut
    /\ UNCHANGED <<now, hSeen, lastPing, clientsMux, requestMux, requireAuth, clients, pendingRequests, wsPc, wsHdr, wsId, live,
                   broken, toAgent, toRelay, hDeadline, hChan, hGot, wFailed, raced,
                   agentVars>>

\* io.ReadAll(r.Body): the body arrives, or the read fails (400)
HReqReadBody(h) ==
    /\ hPc[h] = "body"
    /\ \/ /\ hPc' = [hPc EXCEPT ![h] = "register"]
          /\ UNCHANGED <<hOut, hSel>>
       \/ /\ hPc' = [hPc EXCEPT ![h] = "done"]
          /\ hOut' = [hOut EXCEPT ![h] = "400"]
          /\ hSel' = [hSel EXCEPT ![h] = 0]
    /\ UNCHANGED <<now, hSeen, lastPing, clientsMux, requestMux, requireAuth, clients, pendingRequests, wsPc, wsHdr, wsId, live,
                   broken, toAgent, toRelay, hId, hDeadline, hChan, hGot, wFailed, raced,
                   agentVars>>

\* HReqRegister returning with requestMux still locked
HReqRegisterKeepLock(h) ==
    /\ hPc[h] = "register"
    /\ requestMux = {}
    /\ requestMux' = {ReqWriter(h)}
    /\ pendingRequests' = MapPut(pendingRequests, hId[h], h)
    /\ hPc' = [hPc EXCEPT ![h] = "write"]
    /\ UNCHANGED <<now, hSeen, lastPing, clientsMux, requireAuth, clients, wsPc, wsHdr, wsId, live, broken, toAgent,
                   toRelay, hSel, hId, hDeadline, hChan, hOut, hGot, wFailed, raced,
                   agentVars>>

\* under requestMux, s.pendingRequests[requestID] = responseChan
HReqRegister(h) ==
    /\ hPc[h] = "register"
    /\ requestMux = {}
    /\ pendingRequests' = MapPut(pendingRequests, hId[h], h)
    /\ hPc' = [hPc EXCEPT ![h] = "write"]
    /\ UNCHANGED <<now, hSeen, lastPing, clientsMux, requestMux, requireAuth, clients, wsPc, wsHdr, wsId, live, broken, toAgent,
                   toRelay, hSel, hId, hDeadline, hChan, hOut, hGot, wFailed, raced,
                   agentVars>>

\* selectedClient.Conn.WriteJSON(requestMsg) is entered
HReqWriteBegin(h) ==
    /\ hPc[h] = "write"
    /\ hPc' = [hPc EXCEPT ![h] = "writing"]
    /\ raced' = IF Writers(hSel[h]) = {}
                THEN raced
                ELSE raced \cup Writers(hSel[h]) \cup {ReqWriter(h)}
    /\ UNCHANGED <<now, hSeen, lastPing, clientsMux, requestMux, requireAuth, clients, pendingRequests, wsPc, wsHdr, wsId, live,
                   broken, toAgent, toRelay, hSel, hId, hDeadline, hChan, hOut, hGot,
                   wFailed,
                   agentVars>>

\* selectedClient.Conn.WriteJSON(requestMsg) returns: nil (the select with
\* time.After starts), an error, or, when it overlapped another write on the
\* connection, possibly a panic that ends the handler
HReqWriteEnd(h) ==
    /\ hPc[h] = "writing"
    /\ raced' = raced \ {ReqWriter(h)}
    /\ \/ /\ live[hSel[h]] /\ ~broken[hSel[h]]
          /\ toAgent' = [toAgent EXCEPT ![hSel[h]] = Append(@, HTTPRequestMsg(h))]
          /\ hPc' = [hPc EXCEPT ![h] = "wait"]
          /\ hDeadline' = [hDeadline EXCEPT ![h] = now + TimeoutTicks]
          /\ UNCHANGED <<hOut, hSel, wFailed>>
       \/ /\ live[hSel[h]] /\ broken[hSel[h]]
          /\ hPc' = [hPc EXCEPT ![h] = "wait"]
          /\ hDeadline' = [hDeadline EXCEPT ![h] = now + TimeoutTicks]
          /\ UNCHANGED <<toAgent, hOut, hSel, wFailed>>
       \/ /\ ~live[hSel[h]] \/ broken[hSel[h]]
          /\ hPc' = [hPc EXCEPT ![h] = "wfail"]
          /\ wFailed' = wFailed \cup {hSel[h]}
          /\ UNCHANGED <<toAgent, hOut, hSel, hDeadline>>
       \/ /\ ReqWriter(h) \in raced
          /\ hPc' = [hPc EXCEPT ![h] = "done"]
          /\ hOut' = [hOut EXCEPT ![h] = "panic"]
          /\ hSel' = [hSel EXCEPT ![h] = 0]
          /\ UNCHANGED <<toAgent, hDeadline, wFailed>>
    /\ UNCHANGED <<now, hSeen, lastPing, clientsMux, requestMux, requireAuth, clients, pendingRequests, wsPc, wsHdr, wsId, live,
                   broken, toRelay, hId, hChan, hGot,
                   agentVars>>

\* the write failed: 500 without delete(s.pendingRequests, requestID)
HReqWriteFailedNoDelete(h) ==
    /\ hPc[h] = "wfail"
    /\ requestMux = {}
    /\ pendingRequests' = pendingRequests
    /\ hPc' = [hPc EXCEPT ![h] = "done"]
    /\ hOut' = [hOut EXCEPT ![h] = "500"]
    /\ hSel' = [hSel EXCEPT ![h] = 0]
    /\ UNCHANGED <<now, hSeen, lastPing, clientsMux, requestMux, requireAuth, clients, wsPc, wsHdr, wsId, live, broken, toAgent,
                   toRelay, hId, hDeadline, hChan, hGot, wFailed, raced,
                   agentVars>>

\* the write failed: under requestMux, delete(s.pendingRequests, requestID); 500
HReqWriteFailed(h) ==
    /\ hPc[h] = "wfail"
    /\ requestMux = {}
    /\ pendingRequests' = MapDel(pendingRequests, hId[h])
    /\ hPc' = [hPc EXCEPT ![h] = "done"]
    /\ hOut' = [hOut EXCEPT ![h] = "500"]
    /\ hSel' = [hSel EXCEPT ![h] = 0]
    /\ UNCHANGED <<now, hSeen, lastPing, clientsMux, requestMux, requireAuth, clients, wsPc, wsHdr, wsId, live, broken, toAgent,
                   toRelay, hId, hDeadline, hChan, hGot, wFailed, raced,
                   agentVars>>

\* case response := <-responseChan: under requestMux the entry is deleted; an error in the
\* response gives 502, otherwise the response is written to the caller
HReqResponse(h) ==
    /\ hPc[h] = "wait"
    /\ requestMux = {}
    /\ hChan[h] # <<>>
    /\ hChan' = [hChan EXCEPT ![h] = Tail(@)]
    /\ pendingRequests' = MapDel(pendingRequests, hId[h])
    /\ hGot' = [hGot EXCEPT ![h] = Head(hChan[h]).origin]
    /\ hPc' = [hPc EXCEPT ![h] = "done"]
    /\ hOut' = [hOut EXCEPT ![h] =
                   IF Head(hChan[h]).data.error # <<>> THEN "502" ELSE "relayed"]
    /\ hSeen' = [hSeen EXCEPT ![h] = RelayResponse(Head(hChan[h]).data)]
    /\ hSel' = [hSel EXCEPT ![h] = 0]
    /\ hDeadline' = [hDeadline EXCEPT ![h] = 0]
    /\ UNCHANGED <<now, lastPing, clientsMux, requestMux, requireAuth, clients, wsPc, wsHdr, wsId, live, broken, toAgent,
                   toRelay, hId, wFailed, raced,
                   agentVars>>

\* case <-time.After(RequestTimeout): under requestMux the entry is deleted; 504
HReqTimeout(h) ==
    /\ hPc[h] = "wait"
    /\ requestMux = {}
    /\ now >= hDeadline[h]
    /\ pendingRequests' = MapDel(pendingRequests, hId[h])
    /\ hPc' = [hPc EXCEPT ![h] = "done"]
    /\ hOut' = [hOut EXCEPT ![h] = "504"]
    /\ hSel' = [hSel EXCEPT ![h] = 0]
    /\ hDeadline' = [hDeadline EXCEPT ![h] = 0]
    /\ UNCHANGED <<now, hSeen, lastPing, clientsMux, requestMux, requireAuth, clients, wsPc, wsHdr, wsId, live, broken, toAgent,
                   toRelay, hId, hChan, hGot, wFailed, raced,
                   agentVars>>

\* ================================================================= agent
\* cmd/client/go_client_MC.go: TunnelClient.  Start connects and starts the
\* heartbeat; every successful connect starts a handleMessages goroutine; a
\* handleMessages goroutine that ends starts a reconnect goroutine.
InitAgent ==
    /\ aMain = "init"
    /\ aConn = 0
    /\ aConnected = FALSE
    /\ reconnectCount = 0
    /\ stopClosed = FALSE
    /\ muR = {}
    /\ dials = 0
    /\ cState = [k \in Gen |-> "none"]
    /\ inbox = [k \in Gen |-> <<>>]
    /\ peerSent = 0
    /\ aResp = <<>>
    /\ rlPc = [g \in Gen |-> "none"]
    /\ rlConn = [g \in Gen |-> 0]
    /\ rlMsg = [g \in Gen |-> -1]
    /\ rlErr = [g \in Gen |-> "none"]
    /\ hbPc = "none"
    /\ rcPc = [k \in Rc |-> "none"]
    /\ rcCnt = [k \in Rc |-> 0]
    /\ nRc = 0
    /\ rcDelay = [k \in Rc |-> 0]
    /\ rcTried = 0
    /\ aRaced = {}

\* the agent process is running (its goroutines are scheduled)
Alive == aMain \in {"running", "stopped"}

RlWriter(g) == <<"rl", g>>
HbWriter == <<"hb", 0>>

\* the goroutines inside Conn.WriteJSON on the agent's connection
AgentWriters ==
    {RlWriter(g) : g \in {x \in Gen : rlPc[x] = "writing"}}
        \cup (IF hbPc = "writing" THEN {HbWriter} ELSE {})

\* connect, when the dial succeeds: c.conn = conn; c.connected = true;
\* c.reconnectCount = 0 (under mu.Lock); go c.handleMessages()
connectOK ==
    /\ dials < MaxDials
    /\ muR = {}
    /\ dials' = dials + 1
    /\ aConn' = dials + 1
    /\ aConnected' = TRUE
    /\ reconnectCount' = 0
    /\ rcTried' = 0
    /\ cState' = [cState EXCEPT ![dials + 1] = "open"]
    /\ inbox' = [inbox EXCEPT ![dials + 1] = <<ConnectedMsg>>]
    /\ rlPc' = [rlPc EXCEPT ![dials + 1] = "top"]

\* connect, when the dial fails: an error is returned
connectFail ==
    /\ dials < MaxDials
    /\ dials' = dials + 1
    /\ UNCHANGED <<aConn, aConnected, reconnectCount, cState, inbox, rlPc>>

\* Start: connect; on error return it; go c.heartbeat(); waitForStop
AStart ==
    /\ aMain = "init"
    /\ \/ /\ connectOK
          /\ hbPc' = "wait"
          /\ aMain' = "running"
       \/ /\ connectFail
          /\ hbPc' = hbPc
          /\ rcTried' = rcTried
          /\ aMain' = "failed"
    /\ UNCHANGED <<stopClosed, muR, peerSent, aResp, rlConn, rlMsg, rlErr, rcPc, rcCnt,
                   nRc, aRaced, relayVars, rcDelay>>

\* the relay writes an http_request or a ping on the agent's connection
PeerSend(k, type) ==
    /\ Alive
    /\ cState[k] = "open"
    /\ peerSent < MaxPeerMsgs
    /\ peerSent' = peerSent + 1
    /\ inbox' = [inbox EXCEPT ![k] =
                     Append(@, [type |-> type, id |-> peerSent + 1, origin |-> 0])]
    /\ UNCHANGED <<aMain, aConn, aConnected, reconnectCount, stopClosed, muR, dials,
                   cState, aResp, rlPc, rlConn, rlMsg, rlErr, hbPc, rcPc, rcCnt, nRc,
                   aRaced, relayVars, rcDelay, rcTried>>

\* the agent's connection fails: the relay or the network goes away
PeerFail(k) ==
    /\ Alive
    /\ cState[k] = "open"
    /\ cState' = [cState EXCEPT ![k] = "broken"]
    /\ inbox' = [inbox EXCEPT ![k] = <<>>]
    /\ UNCHANGED <<aMain, aConn, aConnected, reconnectCount, stopClosed, muR, dials,
                   peerSent, aResp, rlPc, rlConn, rlMsg, rlErr, hbPc, rcPc, rcCnt, nRc,
                   aRaced, relayVars, rcDelay, rcTried>>

\* handleMessages, top of the loop: conn := c.conn (under RLock); nil ends the loop
RlTop(g) ==
    /\ Alive
    /\ rlPc[g] = "top"
    /\ IF aConn = 0
       THEN /\ rlPc' = [rlPc EXCEPT ![g] = "exit"]
            /\ rlConn' = rlConn
       ELSE /\ rlPc' = [rlPc EXCEPT ![g] = "read"]
            /\ rlConn' = [rlConn EXCEPT ![g] = aConn]
    /\ UNCHANGED <<aMain, aConn, aConnected, reconnectCount, stopClosed, muR, dials,
                   cState, inbox, peerSent, aResp, rlMsg, rlErr, hbPc, rcPc, rcCnt, nRc,
                   aRaced, relayVars, rcDelay, rcTried>>

\* conn.ReadJSON returns a message: connected is logged, an http_request is
\* dispatched to the local service by this goroutine, a ping is answered
RlReadMessage(g) ==
    /\ Alive
    /\ rlPc[g] = "read"
    /\ cState[rlConn[g]] = "open"
    /\ inbox[rlConn[g]] # <<>>
    /\ inbox' = [inbox EXCEPT ![rlConn[g]] = Tail(@)]
    /\ LET msg == Head(inbox[rlConn[g]])
       IN  /\ rlPc' = [rlPc EXCEPT ![g] =
                          CASE msg.type = "http_request" -> "local"
                            [] msg.type = "ping" -> "pong"
                            [] OTHER -> "top"]
           /\ rlMsg' = [rlMsg EXCEPT ![g] =
                          IF msg.type = "http_request" THEN msg.id ELSE -1]
    /\ UNCHANGED <<aMain, aConn, aConnected, reconnectCount, stopClosed, muR, dials,
                   cState, peerSent, aResp, rlConn, rlErr, hbPc, rcPc, rcCnt, nRc,
                   aRaced, relayVars, rcDelay, rcTried>>

\* conn.ReadJSON returns an error: the loop ends
RlReadError(g) ==
    /\ Alive
    /\ rlPc[g] = "read"
    /\ cState[rlConn[g]] # "open"
    /\ rlPc' = [rlPc EXCEPT ![g] = "exit"]
    /\ UNCHANGED <<aMain, aConn, aConnected, reconnectCount, stopClosed, muR, dials,
                   cState, inbox, peerSent, aResp, rlConn, rlMsg, rlErr, hbPc, rcPc,
                   rcCnt, nRc, aRaced, relayVars, rcDelay, rcTried>>

\* how handleHTTPRequest's dispatch may end: http.NewRequest fails, client.Do
\* fails, io.ReadAll of the response body fails, or the local service answered
DispatchOutcomes == {"newRequest", "do", "readAll", "ok"}

\* handleHTTPRequest returning after the dispatch without sending anything
RlLocalReturnSilent(g, err) ==
    /\ Alive
    /\ rlPc[g] = "local"
    /\ rlPc' = [rlPc EXCEPT ![g] = IF err = "readAll" THEN "top" ELSE "respond"]
    /\ rlErr' = [rlErr EXCEPT ![g] = err]
    /\ UNCHANGED <<aMain, aConn, aConnected, reconnectCount, stopClosed, muR, dials,
                   cState, inbox, peerSent, aResp, rlConn, rlMsg, hbPc, rcPc, rcCnt, nRc,
                   aRaced, relayVars, rcDelay, rcTried>>

\* handleHTTPRequest: the dispatch ends with outcome err; every outcome goes on to
\* send an http_response (sendErrorResponse, or the success response)
RlLocalReturn(g, err) ==
    /\ Alive
    /\ rlPc[g] = "local"
    /\ rlPc' = [rlPc EXCEPT ![g] = "respond"]
    /\ rlErr' = [rlErr EXCEPT ![g] = err]
    /\ UNCHANGED <<aMain, aConn, aConnected, reconnectCount, stopClosed, muR, dials,
                   cState, inbox, peerSent, aResp, rlConn, rlMsg, hbPc, rcPc, rcCnt, nRc,
                   aRaced, relayVars, rcDelay, rcTried>>

\* c.mu.RLock(); if c.conn != nil { c.conn.WriteJSON(...) is entered
\* (handleHTTPRequest, sendErrorResponse, handlePing)
RlWriteBegin(g) ==
    /\ Alive
    /\ rlPc[g] \in {"respond", "pong"}
    /\ IF aConn = 0
       THEN /\ rlPc' = [rlPc EXCEPT ![g] = "top"]
            /\ rlMsg' = [rlMsg EXCEPT ![g] = -1]
            /\ UNCHANGED <<muR, aRaced>>
       ELSE /\ rlPc' = [rlPc EXCEPT ![g] = "writing"]
            /\ muR' = muR \cup {RlWriter(g)}
            /\ aRaced' = IF AgentWriters = {}
                         THEN aRaced
                         ELSE aRaced \cup AgentWriters \cup {RlWriter(g)}
            /\ rlMsg' = rlMsg
    /\ UNCHANGED <<aMain, aConn, aConnected, reconnectCount, stopClosed, dials, cState,
                   inbox, peerSent, aResp, rlConn, rlErr, hbPc, rcPc, rcCnt, nRc,
                   relayVars, rcDelay, rcTried>>

\* c.conn.WriteJSON returns (an error is only logged); c.mu.RUnlock().  A write
\* that overlapped another may panic, which ends the process
RlWriteEnd(g) ==
    /\ Alive
    /\ rlPc[g] = "writing"
    /\ muR' = muR \ {RlWriter(g)}
    /\ aRaced' = aRaced \ {RlWriter(g)}
    /\ rlPc' = [rlPc EXCEPT ![g] = "top"]
    /\ rlMsg' = [rlMsg EXCEPT ![g] = -1]
    /\ \/ /\ cState[aConn] = "open"
          /\ aResp' = IF rlMsg[g] # -1
                      THEN Append(aResp, [id |-> rlMsg[g], err |-> rlErr[g]])
                      ELSE aResp
          /\ aMain' = aMain
       \/ /\ cState[aConn] # "open"
          /\ UNCHANGED <<aResp, aMain>>
       \/ /\ RlWriter(g) \in aRaced
          /\ aMain' = "crashed"
          /\ aResp' = aResp
    /\ UNCHANGED <<aConn, aConnected, reconnectCount, stopClosed, dials, cState, inbox,
                   peerSent, rlConn, rlErr, hbPc, rcPc, rcCnt, nRc, relayVars, rcDelay, rcTried>>

\* handleMessages' deferred function without the go c.reconnect()
RlExitNoReconnect(g) ==
    /\ Alive
    /\ rlPc[g] = "exit"
    /\ muR = {}
    /\ nRc < MaxRc
    /\ cState' = IF aConn # 0 THEN [cState EXCEPT ![aConn] = "closed"] ELSE cState
    /\ inbox' = IF aConn # 0 THEN [inbox EXCEPT ![aConn] = <<>>] ELSE inbox
    /\ aConn' = 0
    /\ aConnected' = FALSE
    /\ rlPc' = [rlPc EXCEPT ![g] = "done"]
    /\ nRc' = nRc
    /\ rcPc' = rcPc
    /\ UNCHANGED <<aMain, reconnectCount, stopClosed, muR, dials, peerSent, aResp,
                   rlConn, rlMsg, rlErr, hbPc, rcCnt, aRaced, relayVars, rcDelay, rcTried>>

\* handleMessages' deferred function: under mu.Lock close the connection and set
\* it to nil, connected = false; go c.reconnect()
RlExit(g) ==
    /\ Alive
    /\ rlPc[g] = "exit"
    /\ muR = {}
    /\ nRc < MaxRc
    /\ cState' = IF aConn # 0 THEN [cState EXCEPT ![aConn] = "closed"] ELSE cState
    /\ inbox' = IF aConn # 0 THEN [inbox EXCEPT ![aConn] = <<>>] ELSE inbox
    /\ aConn' = 0
    /\ aConnected' = FALSE
    /\ rlPc' = [rlPc EXCEPT ![g] = "done"]
    /\ nRc' = nRc + 1
    /\ rcPc' = [rcPc EXCEPT ![nRc + 1] = "count"]
    /\ UNCHANGED <<aMain, reconnectCount, stopClosed, muR, dials, peerSent, aResp,
                   rlConn, rlMsg, rlErr, hbPc, rcCnt, aRaced, relayVars, rcDelay, rcTried>>

\* heartbeat: the ticker fires; connected is read under RLock; not connected: continue
HbTick ==
    /\ Alive
    /\ hbPc = "wait"
    /\ aConnected
    /\ hbPc' = "send"
    /\ UNCHANGED <<aMain, aConn, aConnected, reconnectCount, stopClosed, muR, dials,
                   cState, inbox, peerSent, aResp, rlPc, rlConn, rlMsg, rlErr, rcPc,
                   rcCnt, nRc, aRaced, relayVars, rcDelay, rcTried>>

\* heartbeat: case <-c.stopChan: return
HbStop ==
    /\ Alive
    /\ hbPc = "wait"
    /\ stopClosed
    /\ hbPc' = "done"
    /\ UNCHANGED <<aMain, aConn, aConnected, reconnectCount, stopClosed, muR, dials,
                   cState, inbox, peerSent, aResp, rlPc, rlConn, rlMsg, rlErr, rcPc,
                   rcCnt, nRc, aRaced, relayVars, rcDelay, rcTried>>

\* heartbeat: c.mu.RLock(); if c.conn != nil { c.conn.WriteJSON(heartbeat) is entered
HbWriteBegin ==
    /\ Alive
    /\ hbPc = "send"
    /\ IF aConn = 0
       THEN /\ hbPc' = "wait"
            /\ UNCHANGED <<muR, aRaced>>
       ELSE /\ hbPc' = "writing"
            /\ muR' = muR \cup {HbWriter}
            /\ aRaced' = IF AgentWriters = {}
                         THEN aRaced
                         ELSE aRaced \cup AgentWriters \cup {HbWriter}
    /\ UNCHANGED <<aMain, aConn, aConnected, reconnectCount, stopClosed, dials, cState,
                   inbox, peerSent, aResp, rlPc, rlConn, rlMsg, rlErr, rcPc, rcCnt, nRc,
                   relayVars, rcDelay, rcTried>>

\* heartbeat: c.conn.WriteJSON returns (its error is dropped); c.mu.RUnlock()
HbWriteEnd ==
    /\ Alive
    /\ hbPc = "writing"
    /\ muR' = muR \ {HbWriter}
    /\ aRaced' = aRaced \ {HbWriter}
    /\ hbPc' = "wait"
    /\ \/ aMain' = aMain
       \/ /\ HbWriter \in aRaced
          /\ aMain' = "crashed"
    /\ UNCHANGED <<aConn, aConnected, reconnectCount, stopClosed, dials, cState, inbox,
                   peerSent, aResp, rlPc, rlConn, rlMsg, rlErr, rcPc, rcCnt, nRc,
                   relayVars, rcDelay, rcTried>>

\* config.Tunnel.ReconnectDelay, in ms
ReconnectDelay == 5000

\* reconnect giving up one invocation later
RcCountLateGiveUp(k) ==
    /\ Alive
    /\ rcPc[k] = "count"
    /\ muR = {}
    /\ reconnectCount' = reconnectCount + 1
    /\ rcCnt' = [rcCnt EXCEPT ![k] = reconnectCount + 1]
    /\ IF reconnectCount + 1 > ReconnectAttempts + 1
       THEN /\ rcPc' = [rcPc EXCEPT ![k] = "gaveup"]
            /\ rcDelay' = rcDelay
       ELSE /\ rcPc' = [rcPc EXCEPT ![k] = "sleep"]
            /\ rcDelay' = [rcDelay EXCEPT ![k] = ReconnectDelay * (reconnectCount + 1)]
    /\ UNCHANGED <<aMain, aConn, aConnected, stopClosed, muR, dials, cState, inbox,
                   peerSent, aResp, rlPc, rlConn, rlMsg, rlErr, hbPc, nRc, aRaced,
                   relayVars, rcTried>>

\* reconnect sleeping reconnectDelay whatever the count
RcCountConstantDelay(k) ==
    /\ Alive
    /\ rcPc[k] = "count"
    /\ muR = {}
    /\ reconnectCount' = reconnectCount + 1
    /\ rcCnt' = [rcCnt EXCEPT ![k] = reconnectCount + 1]
    /\ IF reconnectCount + 1 > ReconnectAttempts
       THEN /\ rcPc' = [rcPc EXCEPT ![k] = "gaveup"]
            /\ rcDelay' = rcDelay
       ELSE /\ rcPc' = [rcPc EXCEPT ![k] = "sleep"]
            /\ rcDelay' = [rcDelay EXCEPT ![k] = ReconnectDelay]
    /\ UNCHANGED <<aMain, aConn, aConnected, stopClosed, muR, dials, cState, inbox,
                   peerSent, aResp, rlPc, rlConn, rlMsg, rlErr, hbPc, nRc, aRaced,
                   relayVars, rcTried>>

\* reconnect: c.reconnectCount++; count := c.reconnectCount (under mu.Lock); past
\* the budget: return; otherwise delay := ReconnectDelay*count ms
RcCount(k) ==
    /\ Alive
    /\ rcPc[k] = "count"
    /\ muR = {}
    /\ reconnectCount' = reconnectCount + 1
    /\ rcCnt' = [rcCnt EXCEPT ![k] = reconnectCount + 1]
    /\ IF reconnectCount + 1 > ReconnectAttempts
       THEN /\ rcPc' = [rcPc EXCEPT ![k] = "gaveup"]
            /\ rcDelay' = rcDelay
       ELSE /\ rcPc' = [rcPc EXCEPT ![k] = "sleep"]
            /\ rcDelay' = [rcDelay EXCEPT ![k] = ReconnectDelay * (reconnectCount + 1)]
    /\ UNCHANGED <<aMain, aConn, aConnected, stopClosed, muR, dials, cState, inbox,
                   peerSent, aResp, rlPc, rlConn, rlMsg, rlErr, hbPc, nRc, aRaced,
                   relayVars, rcTried>>

\* reconnect starting a further reconnect goroutine whatever connect returns
RcConnectAlwaysRetry(k) ==
    /\ Alive
    /\ rcPc[k] = "sleep"
    /\ nRc < MaxRc
    /\ nRc' = nRc + 1
    /\ rcPc' = [rcPc EXCEPT ![k] = "done", ![nRc + 1] = "count"]
    /\ \/ connectOK
       \/ /\ connectFail
          /\ rcTried' = rcTried + 1
    /\ UNCHANGED <<aMain, stopClosed, muR, peerSent, aResp, rlConn, rlMsg, rlErr, hbPc,
                   rcCnt, aRaced, relayVars, rcDelay>>

\* reconnect: time.Sleep(delay) is over; connect; on error go c.reconnect()
RcConnect(k) ==
    /\ Alive
    /\ rcPc[k] = "sleep"
    /\ \/ /\ connectOK
          /\ rcPc' = [rcPc EXCEPT ![k] = "done"]
          /\ nRc' = nRc
       \/ /\ connectFail
          /\ nRc < MaxRc
          /\ nRc' = nRc + 1
          /\ rcTried' = rcTried + 1
          /\ rcPc' = [rcPc EXCEPT ![k] = "done", ![nRc + 1] = "count"]
    /\ UNCHANGED <<aMain, stopClosed, muR, peerSent, aResp, rlConn, rlMsg, rlErr, hbPc,
                   rcCnt, aRaced, relayVars, rcDelay>>

\* Stop (on SIGINT/SIGTERM): close(c.stopChan); under mu.Lock close the
\* connection, connected = false
AStop ==
    /\ aMain = "running"
    /\ muR = {}
    /\ stopClosed' = TRUE
    /\ cState' = IF aConn # 0 /\ cState[aConn] = "open"
                 THEN [cState EXCEPT ![aConn] = "closed"]
                 ELSE cState
    /\ aConnected' = FALSE
    /\ aMain' = "stopped"
    /\ UNCHANGED <<aConn, reconnectCount, muR, dials, inbox, peerSent, aResp, rlPc,
                   rlConn, rlMsg, rlErr, hbPc, rcPc, rcCnt, nRc, aRaced, relayVars, rcDelay, rcTried>>

\* Start returns and the process ends
AExit ==
    /\ aMain = "stopped"
    /\ aMain' = "exited"
    /\ UNCHANGED <<aConn, aConnected, reconnectCount, stopClosed, muR, dials, cState,
                   inbox, peerSent, aResp, rlPc, rlConn, rlMsg, rlErr, hbPc, rcPc, rcCnt,
                   nRc, aRaced, relayVars, rcDelay, rcTried>>

NextAgent ==
    \/ AStart
    \/ \E k \in Gen : \E type \in {"http_request", "ping"} : PeerSend(k, type)
    \/ \E k \in Gen : PeerFail(k)
    \/ \E g \in Gen : RlTop(g)
    \/ \E g \in Gen : RlReadMessage(g)
    \/ \E g \in Gen : RlReadError(g)
    \/ \E g \in Gen : \E err \in DispatchOutcomes : RlLocalReturn(g, err)
    \/ \E g \in Gen : RlWriteBegin(g)
    \/ \E g \in Gen : RlWriteEnd(g)
    \/ \E g \in Gen : RlExit(g)
    \/ HbTick
    \/ HbStop
    \/ HbWriteBegin
    \/ HbWriteEnd
    \/ \E k \in Rc : RcCount(k)
    \/ \E k \in Rc : RcConnect(k)
    \/ AStop
    \/ AExit


\* ================================================== relay specifications
Next ==
    \/ Tick
    \/ \E c \in Conn : ConnFail(c)
    \/ \E c \in Conn : WsHandshake(c, Bearer \o <<"t">>)
    \/ \E c \in Conn : WsWelcomeBegin(c)
    \/ \E c \in Conn : WsWelcomeEnd(c)
    \/ \E c \in Conn : WsReadMessage(c)
    \/ \E c \in Conn : WsReadError(c)
    \/ \E c \in Conn : \E res \in LocalResults : AgentServe(c, res)
    \/ \E h \in Req : HReqSelect(h)
    \/ \E h \in Req : HReqReadBody(h)
    \/ \E h \in Req : HReqRegister(h)
    \/ \E h \in Req : HReqWriteBegin(h)
    \/ \E h \in Req : HReqWriteEnd(h)
    \/ \E h \in Req : HReqWriteFailed(h)
    \/ \E h \in Req : HReqResponse(h)
    \/ \E h \in Req : HReqTimeout(h)

Init ==
    /\ requireAuth = TRUE
    /\ InitRelay
    /\ InitAgent

\* the relay with agents that present the configured token
Spec == Init /\ [][Next]_vars

\* ------------------------------------------------ relay: any credential
InitAuth ==
    /\ requireAuth \in BOOLEAN
    /\ InitRelay
    /\ InitAgent

NextAuth ==
    \/ Tick
    \/ \E c \in Conn : ConnFail(c)
    \/ \E c \in Conn : \E hdr \in AuthHeaders : WsHandshake(c, hdr)
    \/ \E c \in Conn : WsWelcomeBegin(c)
    \/ \E c \in Conn : WsWelcomeEnd(c)
    \/ \E c \in Conn : WsReadError(c)

\* the tunnel listener alone, with handshakes carrying any Authorization header
SpecAuth == InitAuth /\ [][NextAuth]_vars

NextOne ==
    \/ Tick
    \/ ConnFail(1)
    \/ WsHandshake(1, Bearer \o <<"t">>)
    \/ WsWelcomeBegin(1)
    \/ WsWelcomeEnd(1)
    \/ WsReadMessage(1)
    \/ WsReadError(1)
    \/ AgentServe(1, LocalOK)
    \/ \E h \in Req : HReqSelect(h)
    \/ \E h \in Req : HReqReadBody(h)
    \/ \E h \in Req : HReqRegister(h)
    \/ \E h \in Req : HReqWriteBegin(h)
    \/ \E h \in Req : HReqWriteEnd(h)
    \/ \E h \in Req : HReqWriteFailed(h)
    \/ \E h \in Req : HReqResponse(h)
    \/ \E h \in Req : HReqTimeout(h)

\* the relay with a single agent session (the first handshake only) whose local
\* service answers every request
SpecOne == Init /\ [][NextOne]_vars

NextReply ==
    \/ Tick
    \/ WsHandshake(1, Bearer \o <<"t">>)
    \/ WsWelcomeBegin(1)
    \/ WsWelcomeEnd(1)
    \/ WsReadMessage(1)
    \/ \E res \in LocalResults : AgentServe(1, res)
    \/ \E h \in Req : HReqSelect(h)
    \/ \E h \in Req : HReqReadBody(h)
    \/ \E h \in Req : HReqRegister(h)
    \/ \E h \in Req : HReqWriteBegin(h)
    \/ \E h \in Req : HReqWriteEnd(h)
    \/ \E h \in Req : HReqResponse(h)
    \/ \E h \in Req : HReqTimeout(h)

\* the relay with a single agent session whose channel stays up and whose local
\* service answers in any way or is unreachable
SpecReply == Init /\ [][NextReply]_vars

NextLive ==
    \/ Tick
    \/ \E c \in Conn : ConnFail(c)
    \/ \E c \in Conn : WsHandshake(c, Bearer \o <<"t">>)
    \/ \E c \in Conn : WsWelcomeBegin(c)
    \/ \E c \in Conn : WsWelcomeEnd(c)
    \/ \E c \in Conn : WsReadMessage(c)
    \/ \E c \in Conn : WsReadError(c)
    \/ \E c \in Conn : \E msg \in {HeartbeatMsg, PongMsg} : AgentSend(c, msg)

\* the tunnel listener with agents that send heartbeats and pongs; no public request
SpecLive == Init /\ [][NextLive]_vars

NextForged ==
    \/ Tick
    \/ WsHandshake(1, Bearer \o <<"t">>)
    \/ WsWelcomeBegin(1)
    \/ WsWelcomeEnd(1)
    \/ WsReadMessage(1)
    \/ AgentServe(1, LocalOK)
    \/ \E kind \in MalformedKinds : AgentReplyMalformed(1, kind)
    \/ \E h \in Req : HReqSelect(h)
    \/ \E h \in Req : HReqReadBody(h)
    \/ \E h \in Req : HReqRegister(h)
    \/ \E h \in Req : HReqWriteBegin(h)
    \/ \E h \in Req : HReqWriteEnd(h)
    \/ \E h \in Req : HReqResponse(h)
    \/ \E h \in Req : HReqTimeout(h)

\* the relay with a single session whose channel stays up and whose agent may
\* answer a request with a response that lacks the id, lacks the data, or
\* names an id never issued
SpecForged == Init /\ [][NextForged]_vars

NextCross ==
    \/ Tick
    \/ \E c \in Conn : WsHandshake(c, Bearer \o <<"t">>)
    \/ \E c \in Conn : WsWelcomeBegin(c)
    \/ \E c \in Conn : WsWelcomeEnd(c)
    \/ \E c \in Conn : WsReadMessage(c)
    \/ \E c \in Conn : \E id \in 0..MaxTime : AgentForge(c, id)
    \/ \E h \in Req : HReqSelect(h)
    \/ \E h \in Req : HReqReadBody(h)
    \/ \E h \in Req : HReqRegister(h)
    \/ \E h \in Req : HReqWriteBegin(h)
    \/ \E h \in Req : HReqWriteEnd(h)
    \/ \E h \in Req : HReqResponse(h)
    \/ \E h \in Req : HReqTimeout(h)

\* the relay with several sessions whose channels stay up and whose agents
\* answer nothing they are asked but send, one at a time, responses carrying
\* identifiers of their choice
SpecCross == Init /\ [][NextCross]_vars

\* the agent, with the relay as its environment
SpecAgent == Init /\ [][NextAgent]_vars

NextReconnect ==
    \/ AStart
    \/ \E k \in Gen : PeerFail(k)
    \/ \E g \in Gen : RlTop(g)
    \/ \E g \in Gen : RlReadMessage(g)
    \/ \E g \in Gen : RlReadError(g)
    \/ \E g \in Gen : RlExit(g)
    \/ \E k \in Rc : RcCount(k)
    \/ \E k \in Rc : RcConnect(k)
    \/ AStop
    \/ AExit

\* the agent's connection lifecycle alone: no request, ping or heartbeat
SpecReconnect == Init /\ [][NextReconnect]_vars

\* ================================================================ claims
\* connection c is the value of some registry entry
Registered(c) == \E k \in DOMAIN clients : clients[k] = c

\* handler h has registered its PendingRequest and has not returned
InFlight(h) == hPc[h] \in {"write", "writing", "wfail", "wait"}

\* the credential of the header equals a configured token
MatchesToken(hdr) ==
    \E i \in 1..Len(Tokens) : hdr = Tokens[i] \/ hdr = Bearer \o Tokens[i]

\* C1: a waiting public request is resolved only with the response that was
\* produced for it: no handler receives the response of a different request.
C1_NoCrossDelivery ==
    \A h \in Req : hGot[h] # 0 => hGot[h] = h

\* C2: a generated request identifier never equals one that is still registered:
\* two requests that are registered and not yet returned have different
\* identifiers, and every such request still owns the entry of its identifier.
C2_RegisteredIdsDistinct ==
    \A h1, h2 \in Req :
        (h1 # h2 /\ InFlight(h1) /\ InFlight(h2)) => hId[h1] # hId[h2]

\* C3: a handler that times out reports 504 with its identifier removed from the
\* table, and an http_response for a request that already timed out, routed
\* afterwards, finds no entry: it changes no channel and no PendingRequest.
C3_TimeoutThenLateResponseDiscarded ==
    [][ /\ \A h \in Req :
              (hPc[h] = "wait" /\ hOut'[h] = "504")
                  => (hPc'[h] = "done" /\ hId[h] \notin DOMAIN pendingRequests')
        /\ \A c \in Conn :
              ( /\ wsPc[c] = "reading" /\ ~broken[c] /\ toRelay[c] # <<>>
                /\ toRelay'[c] = Tail(toRelay[c])
                /\ Head(toRelay[c]).type = "http_response"
                /\ hOut[Head(toRelay[c]).origin] = "504" )
                  => (hChan' = hChan /\ pendingRequests' = pendingRequests)
      ]_vars

\* C4: when authentication is required, a handshake whose credential matches no
\* configured token (a missing credential included) is rejected: its channel is
\* never upgraded and no session is registered for it.
C4_BadCredentialRejected ==
    \A c \in Conn :
        (requireAuth /\ wsPc[c] # "idle" /\ ~MatchesToken(wsHdr[c]))
            => (wsPc[c] = "rejected" /\ ~live[c] /\ ~Registered(c) /\ wsId[c] = -1)

C4_Witness ==
    /\ requireAuth
    /\ wsPc[1] = "rejected" /\ wsHdr[1] = <<>>
    /\ wsPc[2] = "rejected" /\ wsHdr[2] = Bearer \o <<"x">>

\* C5: every live agent channel (registered by its handshake, not yet torn down)
\* is the registry entry of its own session identifier: no registration replaces
\* the entry of a session whose channel is still live.
C5_LiveSessionsKeepTheirEntry ==
    \A c \in Conn :
        wsPc[c] \in {"welcome", "welcoming", "reading", "panicked"}
            => (wsId[c] \in DOMAIN clients /\ clients[wsId[c]] = c)

\* C6: at most one goroutine is inside a write on one session's connection.
C6_RelayWritesExclusive ==
    \A c \in Conn : Cardinality(Writers(c)) <= 1

\* C7: at most one goroutine of the agent (the heartbeat, the read loop writing an
\* http_response, an error response or a pong) is inside a write on its connection.
C7_AgentWritesExclusive ==
    Cardinality(AgentWriters) <= 1

\* C8: while the local call of one forwarded http_request has not returned, another
\* http_request already delivered on the same connection can be dispatched.
C8_SlowRequestDoesNotBlock ==
    \A g \in Gen :
        ( /\ Alive
          /\ rlPc[g] = "local"
          /\ cState[rlConn[g]] = "open"
          /\ inbox[rlConn[g]] # <<>>
          /\ Head(inbox[rlConn[g]]).type = "http_request" )
            => ENABLED (\E g2 \in Gen : RlReadMessage(g2))

\* C9: after the http_request write failed the handler returns at once: its next
\* step reports the delivery failure (500) and leaves no entry under its
\* identifier; it never waits for a response or for the timeout.
C9_WriteFailureRemovesPending ==
    [][ \A h \in Req :
          (hPc[h] = "wfail" /\ hPc'[h] # "wfail")
              => ( /\ hPc'[h] = "done"
                   /\ hOut'[h] = "500"
                   /\ hId[h] \notin DOMAIN pendingRequests' )
      ]_vars

C9_Witness ==
    \E h \in Req : hPc[h] = "done" /\ hOut[h] = "500"

\* C10: a session on which an http_request write has failed is not selected for
\* any later forward (it has been removed from the registry).
C10_FailedSessionNotSelected ==
    [][ \A h \in Req :
          (hPc[h] = "idle" /\ hPc'[h] = "body") => hSel'[h] \notin wFailed
      ]_vars

\* C11: once the channel of a session has been killed, a request forwarded on it
\* that is still waiting receives no response and ends in 504 (or 500); the read
\* loop's teardown leaves the session out of the registry; and a forward that
\* starts when every session has been torn down gets 503.
C11_KilledSessionTeardown ==
    [][ /\ \A h \in Req :
              (hPc[h] = "wait" /\ hChan[h] = <<>> /\ broken[hSel[h]])
                  => ( /\ hChan'[h] = <<>>
                       /\ hPc'[h] # "wait" => hOut'[h] \in {"504", "500"} )
        /\ \A c \in Conn :
              (wsPc[c] = "reading" /\ wsPc'[c] = "closed")
                  => ~ \E k \in DOMAIN clients' : clients'[k] = c
        /\ \A h \in Req :
              ( /\ hPc[h] = "idle" /\ hPc'[h] # "idle"
                /\ \E c \in Conn : wsPc[c] = "closed"
                /\ \A c \in Conn :
                      wsPc[c] \in {"idle", "rejected", "upgradeFailed", "closed"} )
                  => (hPc'[h] = "done" /\ hOut'[h] = "503")
      ]_vars

\* C12: a forward that starts while the registry is empty ends at once with 503,
\* registers no PendingRequest and writes on no channel; a forward that starts
\* while a session is registered selects a registered session.
C12_EmptyRegistryGives503 ==
    [][ \A h \in Req :
          (hPc[h] = "idle" /\ hPc'[h] # "idle")
              => IF DOMAIN clients = {}
                 THEN /\ hPc'[h] = "done" /\ hOut'[h] = "503"
                      /\ hId'[h] = -1 /\ hSel'[h] = 0
                      /\ pendingRequests' = pendingRequests
                      /\ toAgent' = toAgent
                 ELSE /\ hPc'[h] = "body"
                      /\ \E k \in DOMAIN clients : clients[k] = hSel'[h]
      ]_vars

C12_Witness ==
    /\ hPc[1] = "done" /\ hOut[1] = "503"
    /\ hPc[2] = "wait" /\ Registered(hSel[2])

\* C13: what the caller of a forwarded request observes is determined by how the
\* wait ended.  A response with an error gives 502 with the error text; a response
\* without error is written with its status code, headers and body; the timeout
\* gives 504.  So a local answer 200, X-Reply: b, "ok" is observed as such, and an
\* unreachable local service as 502 with the dispatch error.
C13_OutcomeFollowsResolution ==
    [][ \A h \in Req :
          (hPc[h] = "wait" /\ hPc'[h] = "done")
              => IF hChan[h] # <<>> /\ hChan'[h] = Tail(hChan[h])
                 THEN LET r == Head(hChan[h]).data
                          l == Head(hChan[h]).local
                      IN  /\ r.error # <<>>
                               => /\ hOut'[h] = "502"
                                  /\ hSeen'[h].statusCode = 502
                                  /\ Len(hSeen'[h].body) >= Len(r.error)
                                  /\ SubSeq(hSeen'[h].body, 1, Len(r.error)) = r.error
                          /\ r.error = <<>>
                               => /\ hOut'[h] = "relayed"
                                  /\ hSeen'[h] = [statusCode |-> r.statusCode,
                                                  headers |-> r.headers,
                                                  body |-> r.body]
                          /\ l = LocalOK
                               => hSeen'[h] = [statusCode |-> 200,
                                               headers |-> {<<"X-Reply", "b">>},
                                               body |-> <<"o", "k">>]
                          /\ ~l.ok
                               => /\ hSeen'[h].statusCode = 502
                                  /\ SubSeq(hSeen'[h].body, 1, Len(l.err)) = l.err
                 ELSE hOut'[h] = "504" /\ hSeen'[h] = NoReply
      ]_vars

C13_Witness ==
    /\ hOut[1] = "502" /\ hSeen[1].statusCode = 502
    /\ hOut[2] = "relayed" /\ hSeen[2].statusCode = 200 /\ hSeen[2].body = <<"o", "k">>

C15_StoppedStaysStopped ==
    [][ stopClosed
          => /\ dials' = dials
             /\ aConnected' => aConnected
             /\ \A g \in Gen : rlPc[g] = "none" => rlPc'[g] = "none"
      ]_vars

\* C16: a reconnect attempt is started only while fewer than reconnectAttempts
\* attempts have failed since the last connection, so at most reconnectAttempts
\* consecutive attempts are made; reconnect gives up exactly when the budget is
\* used, and from then on there is no attempt, no connection and no read loop.
C16_ReconnectBudget ==
    /\ [](rcTried <= ReconnectAttempts)
    /\ [][ /\ \A k \in Rc :
                /\ (rcPc[k] = "count" /\ rcPc'[k] = "sleep")
                       => rcTried < ReconnectAttempts
                /\ (rcPc[k] = "count" /\ rcPc'[k] = "gaveup")
                       => rcTried = ReconnectAttempts
           /\ (\E k \in Rc : rcPc[k] = "gaveup")
                 => /\ dials' = dials
                    /\ ~aConnected'
                    /\ \A k \in Rc : rcPc'[k] = rcPc[k]
                    /\ \A g \in Gen : rlPc[g] = "none" => rlPc'[g] = "none"
         ]_vars

C16_Witness ==
    /\ \E k \in Rc : rcPc[k] = "gaveup"
    /\ rcTried = ReconnectAttempts
    /\ dials = ReconnectAttempts + 1

\* C17: the delay computed for a reconnect attempt is reconnectDelay times the number
\* of the attempt among the consecutive attempts since the last connection (one more
\* than the attempts that failed since then), and a successful connect sets
\* reconnectCount to zero.
C17_LinearBackoff ==
    [][ /\ \A k \in Rc :
              (rcPc[k] = "count" /\ rcPc'[k] = "sleep")
                  => rcDelay'[k] = ReconnectDelay * (rcTried + 1)
        /\ (dials' = dials + 1 /\ aConnected') => reconnectCount' = 0
      ]_vars

C17_Witness ==
    /\ rcDelay[1] = ReconnectDelay
    /\ rcDelay[2] = ReconnectDelay * 2
    /\ rcDelay[3] = ReconnectDelay
    /\ cState[1] = "closed"

\* C18: when the read on the connection fails, the read loop ends; its teardown
\* leaves the agent not connected with the connection closed and starts a
\* reconnect; a reconnect whose dial succeeds leaves the agent connected on the new
\* connection with a new read loop and the attempt counter at zero.
C18_AutomaticReconnection ==
    [][ /\ \A g \in Gen :
              /\ (rlPc[g] = "read" /\ cState[rlConn[g]] # "open" /\ rlPc'[g] # "read")
                     => rlPc'[g] = "exit"
              /\ (rlPc[g] = "exit" /\ rlPc'[g] # "exit")
                     => /\ ~aConnected'
                        /\ aConn' = 0
                        /\ aConn # 0 => cState'[aConn] = "closed"
                        /\ nRc' = nRc + 1
                        /\ rcPc'[nRc + 1] = "count"
        /\ \A k \in Rc :
              (rcPc[k] = "sleep" /\ dials' = dials + 1 /\ cState'[dials + 1] = "open")
                  => /\ aConnected'
                     /\ aConn' = dials + 1
                     /\ rlPc'[dials + 1] = "top"
                     /\ reconnectCount' = 0
      ]_vars

C18_Witness ==
    /\ ~stopClosed
    /\ rlPc[1] = "done" /\ cState[1] = "closed"
    /\ aConnected /\ aConn = 2 /\ rlPc[2] = "read"

\* C19: every failed connection attempt, the first one made by Start included, is
\* followed by a reconnect (backoff and a further attempt): the agent does not
\* give up on it.
C19_HandshakeFailureReconnects ==
    [][ (dials' = dials + 1 /\ cState'[dials + 1] # "open")
          => /\ nRc' = nRc + 1
             /\ rcPc'[nRc + 1] = "count"
             /\ aMain' # "failed"
      ]_vars

\* C20: when the heartbeat's write returns an error, the agent leaves Connected
\* (the channel is treated as failed).
C20_HeartbeatWriteFailure ==
    [][ ( /\ hbPc = "writing" /\ hbPc' = "wait"
          /\ cState[aConn] # "open"
          /\ aMain' = aMain )
          => ~aConnected'
      ]_vars

\* C21: the number of registered sessions never exceeds MaxClients, and a
\* handshake that arrives while MaxClients sessions are registered adds none
C21_RegistryWithinMaxClients ==
    Cardinality(DOMAIN clients) <= MaxClients

\* C22: the session a forward selects is a function of the registry: from one
\* state the selection cannot yield two different sessions
C22_SelectionDeterministic ==
    \A h \in Req : \A c1, c2 \in Conn :
        (/\ ENABLED (HReqSelect(h) /\ hSel'[h] = c1)
         /\ ENABLED (HReqSelect(h) /\ hSel'[h] = c2)) => c1 = c2

\* C23: when the read loop of a session handles an http_response that has no
\* id, has no data object, or whose id matches no pending request, the pending
\* table, every handler's channel, position, deadline and outcome stay as they
\* were, and the session stays registered with its read loop running
C23_UnmatchedResponseIgnored ==
    [][\A c \in Conn :
          (/\ wsPc[c] = "reading" /\ ~broken[c] /\ toRelay[c] # <<>>
           /\ Head(toRelay[c]).type = "http_response"
           /\ toRelay'[c] = Tail(toRelay[c])
           /\ broken' = broken
           /\ \/ Head(toRelay[c]).id = NoId
              \/ ~Head(toRelay[c]).hasData
              \/ Head(toRelay[c]).id \notin DOMAIN pendingRequests)
          => /\ pendingRequests' = pendingRequests
             /\ hChan' = hChan
             /\ hPc' = hPc
             /\ hDeadline' = hDeadline
             /\ hOut' = hOut
             /\ hSeen' = hSeen
             /\ clients' = clients
             /\ Registered(c)
             /\ wsPc'[c] = "reading"]_vars

\* a handler still waits with its entry registered after its request was read
\* by the agent and the agent's answer was read by the relay
C23_Witness ==
    \E h \in Req :
        /\ hPc[h] = "wait"
        /\ hId[h] \in DOMAIN pendingRequests
        /\ hChan[h] = <<>>
        /\ \A h2 \in Req \ {h} : hPc[h2] = "idle"
        /\ wsPc[1] = "reading" /\ Registered(1) /\ ~broken[1]
        /\ toAgent[1] = <<>> /\ toRelay[1] = <<>>

\* C24: a session leaves the registry only by the teardown that follows a
\* failed read on its own channel; no other step (a heartbeat, ping or pong
\* read or missing, the clock advancing, another session's step) removes it
C24_RemovedOnlyOnIOFailure ==
    [][\A c \in Conn :
          (Registered(c) /\ ~Registered(c)')
          => (broken[c] /\ wsPc[c] = "reading" /\ wsPc'[c] = "closed")]_vars

\* C28: when the read loop of a session reads a heartbeat message, the
\* session's LastPing becomes the time of the read
C28_HeartbeatAdvancesLastPing ==
    [][\A c \in Conn :
          (/\ wsPc[c] = "reading" /\ ~broken[c] /\ toRelay[c] # <<>>
           /\ Head(toRelay[c]).type = "heartbeat"
           /\ toRelay'[c] = Tail(toRelay[c])
           /\ broken' = broken)
          => lastPing'[c] = now]_vars

\* C30: the teardown of one session leaves every other registered session
\* registered
C30_TeardownRemovesOnlyOwnEntry ==
    [][\A c \in Conn :
          (wsPc[c] = "reading" /\ wsPc'[c] = "closed")
          => \A d \in Conn \ {c} : Registered(d) => Registered(d)']_vars

\* C25: a handler whose response was put in its channel before its timer
\* fired finishes with that response (relayed, or 502 for an error response),
\* never with the 504 of the timeout branch
C25_RoutedResponseBeatsTimeout ==
    [][\A h \in Req :
          (/\ hPc[h] = "wait" /\ hChan[h] # <<>> /\ Head(hChan[h]).early
           /\ hPc'[h] = "done")
          => /\ hOut'[h] \in {"relayed", "502"}
             /\ hSeen'[h] = RelayResponse(Head(hChan[h]).data)]_vars

\* C26: a handler that waits for its response holds neither clientsMux nor
\* requestMux, so that during the wait a handshake can register a session, a
\* failed session can be removed, a response can be routed, and another
\* forward can select a session and register its request
C26_WaitHoldsNoLock ==
    \A h \in Req :
        hPc[h] = "wait" =>
            /\ ReqWriter(h) \notin clientsMux \cup requestMux
            /\ \A c \in Conn :
                  /\ (wsPc[c] = "idle" /\ (IF c = 1 THEN TRUE ELSE wsPc[c - 1] # "idle"))
                        => ENABLED (WsHandshake(c, Bearer \o <<"t">>) /\ wsPc'[c] = "welcome")
                  /\ (wsPc[c] = "reading" /\ broken[c]) => ENABLED WsReadError(c)
                  /\ (wsPc[c] = "reading" /\ ~broken[c] /\ toRelay[c] # <<>>)
                        => ENABLED WsReadMessage(c)
            /\ \A g \in Req \ {h} :
                  /\ (hPc[g] = "idle" /\ (IF g = 1 THEN TRUE ELSE hPc[g - 1] # "idle"))
                        => ENABLED HReqSelect(g)
                  /\ hPc[g] = "register" => ENABLED HReqRegister(g)

\* handler h still waits, unanswered, while a forward that began after it has
\* been selected, registered, answered and relayed
C26_Witness ==
    \E h, g \in Req :
        /\ hPc[h] = "wait" /\ hChan[h] = <<>> /\ hId[h] \in DOMAIN pendingRequests
        /\ hPc[g] = "done" /\ hOut[g] = "relayed" /\ hId[g] > hId[h]

\* C27: at any time at most one handleMessages read loop of the agent is
\* running, and at most one reconnect goroutine is counting or sleeping
C27_OneReadLoopOneReconnect ==
    /\ Cardinality({g \in Gen : rlPc[g] \notin {"none", "done"}}) <= 1
    /\ Cardinality({k \in Rc : rcPc[k] \in {"count", "sleep"}}) <= 1

\* the agent is in its third read loop, after two reconnect cycles that each
\* followed the end of the previous loop
C27_Witness ==
    /\ rlPc[1] = "done" /\ rlPc[2] = "done" /\ rlPc[3] = "read"
    /\ Cardinality({k \in Rc : rcPc[k] = "done"}) >= 2

\* the credential of header h: h without its leading "Bearer " when h is
\* longer than 7 characters, otherwise h itself
Credential(h) ==
    IF Len(h) > 7 /\ SubSeq(h, 1, 7) = Bearer THEN SubSeq(h, 8, Len(h)) ELSE h

\* C29: validateToken(h) is true exactly when h is not empty and its credential
\* equals a configured token, and a handshake is let through exactly when
\* authentication is not required or validateToken holds of its header
C29_ValidateTokenExact ==
    /\ \A h \in AuthHeaders :
          validateToken(h) <=>
              (h # <<>> /\ \E i \in 1..Len(Tokens) : Credential(h) = Tokens[i])
    /\ \A c \in Conn :
          wsPc[c] # "idle" =>
              (wsPc[c] # "rejected" <=>
                  (\/ ~requireAuth
                   \/ /\ wsHdr[c] # <<>>
                      /\ \E i \in 1..Len(Tokens) : Credential(wsHdr[c]) = Tokens[i]))

\* with authentication required, a handshake with the bare token was let
\* through and one with the bare prefix was rejected
C29_Witness ==
    /\ requireAuth
    /\ wsHdr[1] = <<"t">> /\ wsPc[1] = "reading" /\ Registered(1)
    /\ wsHdr[2] = Bearer /\ wsPc[2] = "rejected"

\* C31: a response is put in a handler's channel only by the read loop of the
\* session the handler selected and wrote its request on: a response read from
\* another session resolves no pending request of that handler
C31_ResolvedOnlyByOwnSession ==
    [][\A c \in Conn : \A h \in Req :
          (/\ wsPc[c] = "reading" /\ ~broken[c] /\ toRelay[c] # <<>>
           /\ toRelay'[c] = Tail(toRelay[c])
           /\ broken' = broken
           /\ hChan'[h] # hChan[h])
          => hSel[h] = c]_vars

\* C32: no http_request is written on a session before the relay has written
\* the session's "connected" message: a request write puts its message on the
\* channel only after the welcome write of that session has returned
C32_ConnectedWrittenFirst ==
    [][\A h \in Req :
          (/\ hPc[h] = "writing" /\ hPc'[h] = "wait"
           /\ toAgent'[hSel[h]] # toAgent[hSel[h]])
          => wsPc[hSel[h]] \notin {"welcome", "welcoming", "panicked"}]_vars

\* C33: the pending-request table does not leak: when no public request is
\* being handled (every handler has not begun or has ended) the table is empty
C33_NoPendingLeak ==
    (\A h \in Req : hPc[h] \in {"idle", "done"}) => pendingRequests = EmptyMap

\* C34: every public request that was accepted ends with exactly one of the
\* outcomes 503, 400, delivery failure (500), relayed response, 502 or 504,
\* and a handler whose request write has returned can always end by the time
\* its timer has fired
C34_CompletesWithOneOutcome ==
    \A h \in Req :
        /\ hPc[h] = "done" => hOut[h] \in {"503", "400", "500", "relayed", "502", "504"}
        /\ hPc[h] # "done" => hOut[h] = "none"
        /\ (hPc[h] = "wait" /\ now >= hDeadline[h]) => ENABLED HReqTimeout(h)

====
